---- MODULE Spec2Model ----
(***************************************************************************)
(* The experimental REST API of Airflow, www/api/experimental/endpoints.py,*)
(* behind the LDAP authentication decorator, api/auth/backend/ldap_auth.py.*)
(*                                                                         *)
(* Every request is served in three steps: the decorator's credential      *)
(* check, the endpoint function with its one collaborator call, and the    *)
(* delivery of the response.  Text that the code parses or echoes (dates,  *)
(* ids, attribute names) is a sequence of one-character strings, so that   *)
(* strptime, startswith and str are computed and not assumed.              *)
(***************************************************************************)
EXTENDS Integers, Sequences, FiniteSets, TLC

\* Number of requests that can be in flight at once in SpecConcurrent.
MaxInFlight == 2

Slots == 1 .. MaxInFlight

None == <<>>

(***************************************************************************)
(* Text                                                                    *)
(***************************************************************************)
Digits == <<"0", "1", "2", "3", "4", "5", "6", "7", "8", "9">>

IsDigit(c) == \E i \in 1 .. 10 : Digits[i] = c

DigitVal(c) == (CHOOSE i \in 1 .. 10 : Digits[i] = c) - 1

AllDigits(f) == \A i \in 1 .. Len(f) : IsDigit(f[i])

RECURSIVE NumVal(_)
NumVal(f) ==
    IF f = <<>> THEN 0
    ELSE 10 * NumVal(SubSeq(f, 1, Len(f) - 1)) + DigitVal(f[Len(f)])

Pad2(n) == <<Digits[((n \div 10) % 10) + 1], Digits[(n % 10) + 1]>>

Pad4(n) == Pad2(n \div 100) \o Pad2(n % 100)

(***************************************************************************)
(* datetime.strptime(text, '%Y-%m-%dT%H:%M:%S').  The format compiles to   *)
(* one case-insensitive regular expression with a group per directive;     *)
(* the groups are matched here field by field.  A datetime is the tuple    *)
(* <<year, month, day, hour, minute, second>>.                             *)
(***************************************************************************)
\* %Y  \d\d\d\d
field_Y(f) == Len(f) = 4 /\ AllDigits(f)

\* %m  1[0-2]|0[1-9]|[1-9]
field_m(f) == Len(f) \in {1, 2} /\ AllDigits(f) /\ NumVal(f) \in 1 .. 12

\* %d  3[0-1]|[1-2]\d|0[1-9]|[1-9]| [1-9]
field_d(f) ==
    \/ Len(f) \in {1, 2} /\ AllDigits(f) /\ NumVal(f) \in 1 .. 31
    \/ Len(f) = 2 /\ f[1] = " " /\ IsDigit(f[2]) /\ DigitVal(f[2]) \in 1 .. 9

\* %H  2[0-3]|[0-1]\d|\d
field_H(f) == Len(f) \in {1, 2} /\ AllDigits(f) /\ NumVal(f) \in 0 .. 23

\* %M  [0-5]\d|\d
field_M(f) == Len(f) \in {1, 2} /\ AllDigits(f) /\ NumVal(f) \in 0 .. 59

\* %S  6[0-1]|[0-5]\d|\d
field_S(f) == Len(f) \in {1, 2} /\ AllDigits(f) /\ NumVal(f) \in 0 .. 61

day_value(f) == IF f[1] = " " THEN DigitVal(f[2]) ELSE NumVal(f)

is_leap(y) == (y % 4 = 0 /\ y % 100 # 0) \/ y % 400 = 0

days_in_month(y, m) ==
    IF m = 2 THEN (IF is_leap(y) THEN 29 ELSE 28)
    ELSE IF m \in {4, 6, 9, 11} THEN 30 ELSE 31

\* The datetime constructor's range checks (MINYEAR = 1).
valid_datetime(dt) ==
    /\ dt[1] >= 1
    /\ dt[3] <= days_in_month(dt[1], dt[2])
    /\ dt[6] <= 59

\* The ways the regular expression can cut the text: the lengths of the
\* month, day, hour, minute and second fields, the year being four long.
Cuts(text) ==
    {c \in [1 .. 5 -> {1, 2}] :
        Len(text) = 9 + c[1] + c[2] + c[3] + c[4] + c[5]}

cut_fields(text, c) ==
    LET pm == 6
        pd == pm + c[1] + 1
        pH == pd + c[2] + 1
        pM == pH + c[3] + 1
        pS == pM + c[4] + 1
    IN  [Y |-> SubSeq(text, 1, 4),
         m |-> SubSeq(text, pm, pm + c[1] - 1),
         d |-> SubSeq(text, pd, pd + c[2] - 1),
         H |-> SubSeq(text, pH, pH + c[3] - 1),
         M |-> SubSeq(text, pM, pM + c[4] - 1),
         S |-> SubSeq(text, pS, pS + c[5] - 1),
         seps |-> <<text[5], text[pd - 1], text[pH - 1], text[pM - 1],
                    text[pS - 1]>>]

cut_matches(text, c) ==
    LET f == cut_fields(text, c)
    IN  /\ f.seps[1] = "-" /\ f.seps[2] = "-"
        /\ f.seps[3] \in {"T", "t"}
        /\ f.seps[4] = ":" /\ f.seps[5] = ":"
        /\ field_Y(f.Y) /\ field_m(f.m) /\ field_d(f.d)
        /\ field_H(f.H) /\ field_M(f.M) /\ field_S(f.S)

cut_datetime(text, c) ==
    LET f == cut_fields(text, c)
    IN  <<NumVal(f.Y), NumVal(f.m), day_value(f.d),
          NumVal(f.H), NumVal(f.M), NumVal(f.S)>>

\* [ok |-> TRUE, value |-> datetime], or ok = FALSE for a ValueError.
strptime(text) ==
    LET good == {c \in Cuts(text) : cut_matches(text, c)}
    IN  IF good = {} THEN [ok |-> FALSE, value |-> None]
        ELSE LET dt == cut_datetime(text, CHOOSE c \in good : TRUE)
             IN  IF valid_datetime(dt) THEN [ok |-> TRUE, value |-> dt]
                 ELSE [ok |-> FALSE, value |-> None]

\* str(datetime): 'YYYY-MM-DD HH:MM:SS'
str_datetime(dt) ==
    Pad4(dt[1]) \o <<"-">> \o Pad2(dt[2]) \o <<"-">> \o Pad2(dt[3]) \o <<" ">>
    \o Pad2(dt[4]) \o <<":">> \o Pad2(dt[5]) \o <<":">> \o Pad2(dt[6])

\* datetime.isoformat(): 'YYYY-MM-DDTHH:MM:SS'
isoformat(dt) ==
    Pad4(dt[1]) \o <<"-">> \o Pad2(dt[2]) \o <<"-">> \o Pad2(dt[3]) \o <<"T">>
    \o Pad2(dt[4]) \o <<":">> \o Pad2(dt[5]) \o <<":">> \o Pad2(dt[6])

(***************************************************************************)
(* Inputs: the ids, texts and values that requests are built from.         *)
(***************************************************************************)
dag_etl == <<"e", "t", "l">>

dag_unknown == <<"z", "z", "z">>

task_extract == <<"e", "x", "t", "r", "a", "c", "t">>

task_load == <<"l", "o", "a", "d">>

task_unknown == <<"t", "m", "p">>

DagIds == {dag_etl, dag_unknown}

TaskIds == {task_extract, task_unknown}

date_padded == <<"2", "0", "2", "4", "-", "0", "1", "-", "0", "1", "T", "0", "0", ":", "0", "0", ":", "0", "0">>

date_unpadded == <<"2", "0", "2", "4", "-", "1", "-", "1", "T", "0", ":", "0", ":", "0">>

date_out_of_range == <<"2", "0", "2", "0", "-", "1", "3", "-", "4", "0">>

date_not_a_date == <<"n", "o", "t", "-", "a", "-", "d", "a", "t", "e">>

date_no_such_day == <<"2", "0", "2", "3", "-", "0", "2", "-", "2", "9", "T", "0", "0", ":", "0", "0", ":", "0", "0">>

DateTexts ==
    {date_padded, date_unpadded, date_out_of_range, date_not_a_date,
     date_no_such_day}

\* What datetime.now() can return.
NowInstants == {<<2024, 1, 1, 0, 0, 0>>, <<2024, 1, 2, 3, 4, 5>>}

XComKeys == {<<"s", "t", "a", "t", "u", "s">>}

XComValues == {<<"d", "o", "n", "e">>, <<"f", "a", "i", "l">>}

run_label == <<"r", "1">>

JNull == [t |-> "null"]

JStr(text) == [t |-> "str", v |-> text]

JNum(n) == [t |-> "num", v |-> n]

\* The request body of POST /dags/<dag_id>/dag_runs: not JSON at all, or a
\* JSON object.
Bodies ==
    {[valid |-> FALSE, data |-> None]}
    \cup {[valid |-> TRUE, data |-> d] :
            d \in {[conf |-> JNull]}
                  \cup {[execution_date |-> JNull],
                        [execution_date |-> JNum(5)]}
                  \cup {[execution_date |-> JStr(t)] : t \in DateTexts}
                  \cup {[run_id |-> JStr(run_label), conf |-> JStr(<<"c">>),
                         execution_date |-> JStr(date_padded)]}}

\* The value of request.headers.get("Authorization"): absent, an object
\* with a username and a password, or a bare string that has neither.
good_credential == [username |-> "airflow", password |-> "secret"]

bad_credential == [username |-> "airflow", password |-> "guess"]

raw_header == [raw |-> "Basic"]

empty_header == [raw |-> ""]

Headers == {None, good_credential, bad_credential, raw_header, empty_header}

Endpoints ==
    {"trigger_dag", "dag_info", "dag_run_info", "test", "task_info",
     "latest_dag_runs", "task_instance_info", "write_xcom"}

Request(e, h, d, t, x, k, v, b) ==
    [endpoint |-> e, header |-> h, dag_id |-> d, task_id |-> t,
     execution_date |-> x, key |-> k, value |-> v, body |-> b]

\* The routes of the blueprint, each with the arguments its URL rule binds.
RoutedRequests(h) ==
    {Request("trigger_dag", h, d, None, None, None, None, b) :
        d \in DagIds, b \in Bodies}
    \cup {Request("dag_info", h, d, None, None, None, None, None) :
            d \in DagIds}
    \cup {Request("dag_run_info", h, d, None, x, None, None, None) :
            d \in DagIds, x \in DateTexts}
    \cup {Request("test", h, None, None, None, None, None, None)}
    \cup {Request("task_info", h, d, t, None, None, None, None) :
            d \in DagIds, t \in TaskIds}
    \cup {Request("latest_dag_runs", h, None, None, None, None, None, None)}
    \cup {Request("task_instance_info", h, d, t, x, None, None, None) :
            d \in DagIds, t \in TaskIds, x \in DateTexts}
    \cup {Request("write_xcom", h, d, t, x, k, v, None) :
            d \in DagIds, t \in TaskIds, x \in DateTexts, k \in XComKeys,
            v \in XComValues}

\* A request that is turned away is turned away before its arguments are
\* read: one request per route stands for them, the one that would change
\* the stores if it were let through.
plain_body ==
    [valid |-> TRUE, data |-> [execution_date |-> JStr(date_padded)]]

IsPlain(r) ==
    /\ r.dag_id \in {None, dag_etl}
    /\ r.task_id \in {None, task_extract}
    /\ r.execution_date \in {None, date_padded}
    /\ r.value \in {None, <<"d", "o", "n", "e">>}
    /\ r.body \in {None, plain_body}

Requests ==
    RoutedRequests(good_credential)
    \cup {r \in UNION {RoutedRequests(h) : h \in Headers} : IsPlain(r)}

\* The requests of SpecConcurrent: authenticated triggers of one dag, with
\* no date and with two texts of the same date.
TriggerRequests ==
    {Request("trigger_dag", good_credential, dag_etl, None, None, None, None,
             [valid |-> TRUE, data |-> b]) :
        b \in {[conf |-> JNull], [execution_date |-> JStr(date_padded)],
               [execution_date |-> JStr(date_unpadded)]}}

(***************************************************************************)
(* Responses and messages.  "...{}...".format(a, b) is kept as the format  *)
(* string with its arguments.                                              *)
(***************************************************************************)
format(fmt, args) == [fmt |-> fmt, args |-> args]

Response(text, status) ==
    [status |-> status, mimetype |-> "text/html", body |-> [text |-> text]]

jsonify(body) ==
    [status |-> 200, mimetype |-> "application/json", body |-> body]

with_status(response, code) == [response EXCEPT !.status = code]

_forbidden == Response("Forbidden", 403)

\* The result of a call: a returned value, or a raised exception.
Return(v) == [exc |-> "none", err |-> None, value |-> v]

Raise(class, message) == [exc |-> class, err |-> message, value |-> None]

(***************************************************************************)
(* Collaborators: the definition registry, the run registry, the task      *)
(* instances, the XCom table and the credential backend.                   *)
(***************************************************************************)
\* DagBag().dags: the tasks of each workflow definition.
dagbag_dags == [d \in {dag_etl} |-> {task_extract, task_load}]

\* dag_not_found with a message that does not name the dag.
dag_not_found_unnamed(dag_id) == format("Dag not found", <<>>)

dag_not_found(dag_id) == format("Dag id {} not found", <<dag_id>>)

get_dag(dag_id) ==
    IF dag_id \notin DOMAIN dagbag_dags
    THEN Raise("AirflowException", dag_not_found(dag_id))
    ELSE Return(dag_id)

dt_less(a, b) ==
    \E i \in 1 .. 6 : a[i] < b[i] /\ \A j \in 1 .. i - 1 : a[j] = b[j]

RECURSIVE sorted_dates(_)
sorted_dates(D) ==
    IF D = {} THEN <<>>
    ELSE LET least == CHOOSE a \in D : \A b \in D \ {a} : dt_less(a, b)
         IN  <<least>> \o sorted_dates(D \ {least})

RECURSIVE sorted_by_task(_)
sorted_by_task(T) ==
    IF T = {} THEN <<>>
    ELSE LET first == CHOOSE a \in T :
                          \A b \in T \ {a} :
                              a.task_id = task_extract
                              \/ b.task_id # task_extract
         IN  <<first>> \o sorted_by_task(T \ {first})

find_run(runs, dag_id, execution_date) ==
    {r \in runs : r.dag_id = dag_id /\ r.execution_date = execution_date}

\* trigger.trigger_dag(dag_id, run_id, conf, execution_date): the new run
\* and the run registry after the call.
trigger_trigger_dag(runs, dag_id, run_id, conf, execution_date, now) ==
    LET date == IF execution_date = None THEN now ELSE execution_date
        label == IF run_id = None THEN <<"m", "a", "n", "u", "a", "l", "_", "_">> \o isoformat(date)
                 ELSE run_id
        dr == [dag_id |-> dag_id, execution_date |-> date, run_id |-> label,
               conf |-> conf]
    IN  IF get_dag(dag_id).exc # "none"
        THEN [call |-> get_dag(dag_id), runs |-> runs]
        ELSE IF find_run(runs, dag_id, date) # {}
        THEN [call |-> Raise("AirflowException",
                             format("Run id {} already exists for dag id {}",
                                    <<label, dag_id>>)),
              runs |-> runs]
        ELSE [call |-> Return(dr), runs |-> runs \cup {dr}]

\* get_dag_run(dag_id, execution_date)
get_dag_run(runs, dag_id, execution_date) ==
    IF get_dag(dag_id).exc # "none" THEN get_dag(dag_id)
    ELSE IF find_run(runs, dag_id, execution_date) = {}
    THEN Raise("AirflowException",
               format("Dag Run for date {} not found in dag {}",
                      <<str_datetime(execution_date), dag_id>>))
    ELSE Return(CHOOSE r \in find_run(runs, dag_id, execution_date) : TRUE)

\* get_task(dag_id, task_id)
get_task(dag_id, task_id) ==
    IF get_dag(dag_id).exc # "none" THEN get_dag(dag_id)
    ELSE IF task_id \notin dagbag_dags[dag_id]
    THEN Raise("AirflowException",
               format("Task {} not found in dag {}", <<task_id, dag_id>>))
    ELSE Return([dag_id |-> dag_id, task_id |-> task_id])

\* get_task_instance(dag_id, task_id, execution_date): definition, run,
\* step and instance are resolved in this order.
get_task_instance(runs, instances, dag_id, task_id, execution_date) ==
    LET found == {ti \in instances :
                     /\ ti.dag_id = dag_id /\ ti.task_id = task_id
                     /\ ti.execution_date = execution_date}
    IN  IF get_dag_run(runs, dag_id, execution_date).exc # "none"
        THEN get_dag_run(runs, dag_id, execution_date)
        ELSE IF get_task(dag_id, task_id).exc # "none"
        THEN get_task(dag_id, task_id)
        ELSE IF found = {}
        THEN Raise("AirflowException",
                   format("Task {} instance for date {} not found",
                          <<task_id, str_datetime(execution_date)>>))
        ELSE Return(CHOOSE ti \in found : TRUE)

\* DagRun.get_task_instances()
get_task_instances(instances, run) ==
    sorted_by_task({ti \in instances :
                       /\ ti.dag_id = run.dag_id
                       /\ ti.execution_date = run.execution_date})

\* DAG.get_active_runs(): the execution dates of the dag's running runs.
get_active_runs(runs, dag_id) ==
    sorted_dates({r.execution_date : r \in {q \in runs : q.dag_id = dag_id}})

\* DagRun.get_latest_runs(): the latest run of each dag.
get_latest_runs(runs) ==
    {r \in runs :
        \A q \in runs :
            q.dag_id = r.dag_id =>
                ~dt_less(r.execution_date, q.execution_date)}

same_xcom(e, dag_id, task_id, execution_date, key) ==
    /\ e.dag_id = dag_id /\ e.task_id = task_id
    /\ e.execution_date = execution_date /\ e.key = key

\* models.XCom.set: the entries with these coordinates are deleted and the
\* new one is added.
XCom_set(table, dag_id, task_id, execution_date, key, value) ==
    {e \in table : ~same_xcom(e, dag_id, task_id, execution_date, key)}
    \cup {[dag_id |-> dag_id, task_id |-> task_id,
           execution_date |-> execution_date, key |-> key, value |-> value]}

\* LdapUser.try_login(username, password) raises unless the directory
\* accepts the pair.
try_login(username, password) ==
    IF [username |-> username, password |-> password] = good_credential
    THEN Return(None)
    ELSE Raise("AuthenticationError", None)


(***************************************************************************)
(* vars(object): the attribute dictionary of each entity, and the          *)
(* serialisation the endpoints apply to it.                                *)
(***************************************************************************)
PStr(text) == [t |-> "str", v |-> text]

PDate(dt) == [t |-> "datetime", v |-> dt]

PBool(b) == [t |-> "bool", v |-> b]

PNone == [t |-> "NoneType"]

POpt(v) == IF v = None THEN PNone ELSE PStr(v)

str(value) ==
    CASE value.t = "str" -> value.v
      [] value.t = "datetime" -> str_datetime(value.v)
      [] value.t = "bool" -> IF value.v THEN <<"T", "r", "u", "e">> ELSE <<"F", "a", "l", "s", "e">>
      [] value.t = "NoneType" -> <<"N", "o", "n", "e">>

startswith(k, c) == Len(k) >= 1 /\ k[1] = c

vars_dag(dag_id) ==
    (<<"_", "d", "a", "g", "_", "i", "d">> :> PStr(dag_id)) @@ (<<"i", "s", "_", "s", "u", "b", "d", "a", "g">> :> PBool(FALSE))
    @@ (<<"p", "a", "r", "e", "n", "t", "_", "d", "a", "g">> :> PNone)

vars_dag_run(run) ==
    (<<"d", "a", "g", "_", "i", "d">> :> PStr(run.dag_id))
    @@ (<<"e", "x", "e", "c", "u", "t", "i", "o", "n", "_", "d", "a", "t", "e">> :> PDate(run.execution_date))
    @@ (<<"r", "u", "n", "_", "i", "d">> :> PStr(run.run_id)) @@ (<<"c", "o", "n", "f">> :> POpt(run.conf))
    @@ (<<"_", "s", "t", "a", "t", "e">> :> PStr(<<"r", "u", "n", "n", "i", "n", "g">>))
    @@ (<<"_", "s", "a", "_", "i", "n", "s", "t", "a", "n", "c", "e", "_", "s", "t", "a", "t", "e">> :> PNone)

vars_task(task) ==
    (<<"t", "a", "s", "k", "_", "i", "d">> :> PStr(task.task_id)) @@ (<<"o", "w", "n", "e", "r">> :> PStr(<<"a", "i", "r", "f", "l", "o", "w">>))
    @@ (<<"_", "d", "a", "g">> :> PStr(task.dag_id))

vars_task_instance(ti) ==
    (<<"d", "a", "g", "_", "i", "d">> :> PStr(ti.dag_id)) @@ (<<"t", "a", "s", "k", "_", "i", "d">> :> PStr(ti.task_id))
    @@ (<<"e", "x", "e", "c", "u", "t", "i", "o", "n", "_", "d", "a", "t", "e">> :> PDate(ti.execution_date))
    @@ (<<"s", "t", "a", "t", "e">> :> PNone) @@ (<<"_", "s", "a", "_", "i", "n", "s", "t", "a", "n", "c", "e", "_", "s", "t", "a", "t", "e">> :> PNone)

\* public_fields without the filter on the attribute name.
public_fields_unfiltered(attrs) == [k \in DOMAIN attrs |-> str(attrs[k])]

\* {k: str(v) for k, v in vars(obj).items() if not k.startswith('_')}
public_fields(attrs) ==
    [k \in {a \in DOMAIN attrs : ~startswith(a, "_")} |-> str(attrs[k])]

key_active_runs == <<"a", "c", "t", "i", "v", "e", "_", "r", "u", "n", "s">>

key_task_instances == <<"t", "a", "s", "k", "_", "i", "n", "s", "t", "a", "n", "c", "e", "s">>

(***************************************************************************)
(* The endpoint functions.  Each gives what the function returns or        *)
(* raises, the collaborator calls it made, and the run registry and XCom   *)
(* table it leaves.                                                        *)
(***************************************************************************)
Out(ret, raised, calls, runs, table) ==
    [ret |-> ret, raised |-> raised, calls |-> calls, runs |-> runs,
     xcom |-> table]

bad_date_message(text) ==
    format("Given execution date, {}, could not be identified as a date. Example date format: 2015-11-16T14:34:15",
           <<text>>)

\* bad_date_response with the status code left at its default.
bad_date_response_default_status(text) ==
    jsonify([error |-> bad_date_message(text)])

\* response = jsonify({'error': error_message}); response.status_code = 400
bad_date_response(text) ==
    with_status(jsonify([error |-> bad_date_message(text)]), 400)

\* not_found_response with the status code left at its default.
not_found_response_default_status(err) == jsonify([error |-> err])

\* except AirflowException as err: jsonify(error="{}".format(err)), 404
not_found_response(err) == with_status(jsonify([error |-> err]), 404)

from_json(j) ==
    IF j.t = "null" THEN None ELSE IF j.t = "str" THEN j.v ELSE j

trigger_dag_view(r, runs, table, now) ==
    IF ~r.body.valid
    THEN Out(None, "BadRequest", <<>>, runs, table)
    ELSE
    LET data == r.body.data
        run_id == IF "run_id" \in DOMAIN data THEN from_json(data.run_id)
                  ELSE None
        conf == IF "conf" \in DOMAIN data THEN from_json(data.conf) ELSE None
        given == "execution_date" \in DOMAIN data
                 /\ data.execution_date.t # "null"
    IN  IF given /\ data.execution_date.t # "str"
        THEN Out(None, "TypeError", <<>>, runs, table)
        ELSE IF given /\ ~strptime(data.execution_date.v).ok
        THEN Out(bad_date_response(data.execution_date.v), "none", <<>>,
                 runs, table)
        ELSE
        LET execution_date == IF given THEN strptime(data.execution_date.v).value
                              ELSE None
            done == trigger_trigger_dag(runs, r.dag_id, run_id, conf,
                                        execution_date, now)
        IN  IF done.call.exc = "AirflowException"
            THEN Out(not_found_response(done.call.err), "none",
                     <<"trigger.trigger_dag">>, done.runs, table)
            ELSE Out(jsonify([message |-> format("Created {}",
                                                 <<done.call.value>>)]),
                     "none", <<"trigger.trigger_dag">>, done.runs, table)

dag_info_view(r, runs, table) ==
    LET dag == get_dag(r.dag_id)
    IN  IF dag.exc = "AirflowException"
        THEN Out(not_found_response(dag.err), "none", <<"get_dag">>, runs,
                 table)
        ELSE
        LET active_run_dates == get_active_runs(runs, dag.value)
            info == public_fields(vars_dag(dag.value))
            dates == [i \in 1 .. Len(active_run_dates) |->
                         isoformat(active_run_dates[i])]
        IN  Out(jsonify((key_active_runs :> dates) @@ info), "none",
                <<"get_dag", "get_active_runs">>, runs, table)

\* The source indents the date-parsing block of dag_run_info one level
\* deeper than the function body; it is taken at the level of the body, as
\* the same block stands in task_instance_info and write_xcom.
dag_run_info_view(r, runs, instances, table) ==
    IF ~strptime(r.execution_date).ok
    THEN Out(bad_date_response(r.execution_date), "none", <<>>, runs, table)
    ELSE
    LET execution_date == strptime(r.execution_date).value
        dag_run == get_dag_run(runs, r.dag_id, execution_date)
    IN  IF dag_run.exc = "AirflowException"
        THEN Out(not_found_response(dag_run.err), "none", <<"get_dag_run">>,
                 runs, table)
        ELSE
        LET info == public_fields(vars_dag_run(dag_run.value))
            task_instances == get_task_instances(instances, dag_run.value)
            listed == [i \in 1 .. Len(task_instances) |->
                          public_fields(vars_task_instance(task_instances[i]))]
        IN  Out(jsonify((key_task_instances :> listed) @@ info), "none",
                <<"get_dag_run", "get_task_instances">>, runs, table)

test_view(r, runs, table) ==
    Out(jsonify([status |-> "OK"]), "none", <<>>, runs, table)

task_info_view(r, runs, table) ==
    LET info == get_task(r.dag_id, r.task_id)
    IN  IF info.exc = "AirflowException"
        THEN Out(not_found_response(info.err), "none", <<"get_task">>, runs,
                 table)
        ELSE Out(jsonify(public_fields(vars_task(info.value))), "none",
                 <<"get_task">>, runs, table)

\* strftime("%Y-%m-%d %H:%M")
strftime_minutes(dt) == SubSeq(str_datetime(dt), 1, 16)

latest_dag_runs_view(r, runs, table) ==
    LET dagruns == get_latest_runs(runs)
        entry(dagrun) ==
            [dag_id |-> dagrun.dag_id,
             execution_date |-> strftime_minutes(dagrun.execution_date),
             start_date |-> <<>>,
             dag_run_url |-> format("/admin/airflow/graph?dag_id={}&execution_date={}",
                                    <<dagrun.dag_id,
                                      str_datetime(dagrun.execution_date)>>)]
    IN  Out(jsonify([payload |-> {entry(d) : d \in dagruns}]), "none",
            <<"get_latest_runs">>, runs, table)

task_instance_info_view(r, runs, instances, table) ==
    IF ~strptime(r.execution_date).ok
    THEN Out(bad_date_response(r.execution_date), "none", <<>>, runs, table)
    ELSE
    LET execution_date == strptime(r.execution_date).value
        info == get_task_instance(runs, instances, r.dag_id, r.task_id,
                                  execution_date)
    IN  IF info.exc = "AirflowException"
        THEN Out(not_found_response(info.err), "none",
                 <<"get_task_instance">>, runs, table)
        ELSE Out(jsonify(public_fields(vars_task_instance(info.value))),
                 "none", <<"get_task_instance">>, runs, table)

\* dag_exists with the check left out.
dag_exists_unchecked(dag_id) == TRUE

\* if dag_id not in dagbag.dags: ... 404
dag_exists(dag_id) == dag_id \in DOMAIN dagbag_dags

\* xcom_kwargs with the task id left out of the coordinates.
xcom_kwargs_any_task(r, execution_date) ==
    [dag_id |-> r.dag_id, task_id |-> None,
     execution_date |-> execution_date, key |-> r.key, value |-> r.value]

\* The keyword arguments of models.XCom.set(...)
xcom_kwargs(r, execution_date) ==
    [dag_id |-> r.dag_id, task_id |-> r.task_id,
     execution_date |-> execution_date, key |-> r.key, value |-> r.value]

write_xcom_view(r, runs, table) ==
    IF ~strptime(r.execution_date).ok
    THEN Out(bad_date_response(r.execution_date), "none", <<>>, runs, table)
    ELSE
    LET execution_date == strptime(r.execution_date).value
        kw == xcom_kwargs(r, execution_date)
    IN  IF ~dag_exists(r.dag_id)
        THEN Out(with_status(jsonify([error |-> format("Dag {} not found",
                                                       <<r.dag_id>>)]), 404),
                 "none", <<>>, runs, table)
        ELSE Out(jsonify([message |->
                     format("XCom {} has been set to {} for task {} in DAG {} with the execution date {}",
                            <<r.key, r.value, r.task_id, r.dag_id,
                              str_datetime(execution_date)>>)]),
                 "none", <<"XCom.set">>, runs,
                 XCom_set(table, kw.dag_id, kw.task_id, kw.execution_date,
                          kw.key, kw.value))

(***************************************************************************)
(* The authentication decorator.                                           *)
(***************************************************************************)
\* header = request.headers.get("Authorization"); if header: try:
\* LdapUser.try_login(header.username, header.password)
login_outcome(header) ==
    IF header \in {None, empty_header} THEN "no_header"
    ELSE IF "username" \notin DOMAIN header THEN "raised"
    ELSE IF try_login(header.username, header.password).exc # "none"
    THEN "raised"
    ELSE "ok"

\* calls_function with a failed login logged and then ignored.
calls_function_after_failed_login(header) ==
    header \notin {None, empty_header}

\* Whether decorated() goes on to call the wrapped function.
calls_function(header) == login_outcome(header) = "ok"

make_response(response) == response

\* try: response = function(...); return make_response(response)
\* except Exception: ...; return _forbidden()
decorated_response(out) ==
    IF out.raised = "none" THEN make_response(out.ret) ELSE _forbidden

\* requires_authentication with the decorator left off test().
requires_authentication_except_test(endpoint) ==
    endpoint \in Endpoints \ {"test"}

\* Which view functions carry @requires_authentication.
requires_authentication(endpoint) == endpoint \in Endpoints

(***************************************************************************)
(* State                                                                   *)
(***************************************************************************)
VARIABLES
    dag_runs,        \* the run registry
    task_instances,  \* the step instances of the runs
    xcom,            \* the XCom table
    pc,              \* per slot: idle, received, authenticated, responded
    request,         \* per slot: the request being served
    response,        \* per slot: the response of decorated()
    invocations,     \* per slot: how often the view function was called
    calls,           \* per slot: the collaborator calls of the view function
    raised,          \* per slot: the exception the view function raised
    returned,        \* per slot: what the view function returned
    seen             \* per slot: the stores when the request was received
                     \* and when its view function ran

vars ==
    <<dag_runs, task_instances, xcom, pc, request, response, invocations,
      calls, raised, returned, seen>>

stores == <<dag_runs, task_instances, xcom>>

audit == <<invocations, calls, raised, returned, seen>>

Init ==
    /\ dag_runs = {}
    /\ task_instances = {}
    /\ xcom = {}
    /\ pc = [s \in Slots |-> "idle"]
    /\ request = [s \in Slots |-> None]
    /\ response = [s \in Slots |-> None]
    /\ invocations = [s \in Slots |-> 0]
    /\ calls = [s \in Slots |-> <<>>]
    /\ raised = [s \in Slots |-> "none"]
    /\ returned = [s \in Slots |-> None]
    /\ seen = [s \in Slots |-> None]

Snapshot == [dag_runs |-> dag_runs, xcom |-> xcom]

\* The router hands a request to decorated().
Receive(s, r) ==
    /\ pc[s] = "idle"
    /\ pc' = [pc EXCEPT ![s] = "received"]
    /\ request' = [request EXCEPT ![s] = r]
    /\ seen' = [seen EXCEPT ![s] = [received |-> Snapshot, served |-> None]]
    /\ UNCHANGED <<stores, response, invocations, calls, raised, returned>>

\* decorated() up to the call of the wrapped function.
Authenticate(s) ==
    /\ pc[s] = "received"
    /\ IF requires_authentication(request[s].endpoint)
          /\ ~calls_function(request[s].header)
       THEN /\ pc' = [pc EXCEPT ![s] = "responded"]
            /\ response' = [response EXCEPT ![s] = _forbidden]
       ELSE /\ pc' = [pc EXCEPT ![s] = "authenticated"]
            /\ UNCHANGED response
    /\ UNCHANGED <<stores, request, audit>>

\* The wrapped function runs and decorated() returns.
Serve(s, endpoint, out) ==
    /\ pc[s] = "authenticated"
    /\ request[s].endpoint = endpoint
    /\ pc' = [pc EXCEPT ![s] = "responded"]
    /\ invocations' = [invocations EXCEPT ![s] = @ + 1]
    /\ calls' = [calls EXCEPT ![s] = out.calls]
    /\ raised' = [raised EXCEPT ![s] = out.raised]
    /\ returned' = [returned EXCEPT ![s] = out.ret]
    /\ seen' = [seen EXCEPT ![s].served = Snapshot]
    /\ response' = [response EXCEPT ![s] = decorated_response(out)]
    /\ dag_runs' = out.runs
    /\ xcom' = out.xcom
    /\ UNCHANGED <<task_instances, request>>

trigger_dag(s) ==
    \E now \in NowInstants :
        Serve(s, "trigger_dag", trigger_dag_view(request[s], dag_runs, xcom, now))

dag_info(s) == Serve(s, "dag_info", dag_info_view(request[s], dag_runs, xcom))

dag_run_info(s) ==
    Serve(s, "dag_run_info",
          dag_run_info_view(request[s], dag_runs, task_instances, xcom))

test(s) == Serve(s, "test", test_view(request[s], dag_runs, xcom))

task_info(s) ==
    Serve(s, "task_info", task_info_view(request[s], dag_runs, xcom))

latest_dag_runs(s) ==
    Serve(s, "latest_dag_runs", latest_dag_runs_view(request[s], dag_runs, xcom))

task_instance_info(s) ==
    Serve(s, "task_instance_info",
          task_instance_info_view(request[s], dag_runs, task_instances, xcom))

write_xcom(s) ==
    Serve(s, "write_xcom", write_xcom_view(request[s], dag_runs, xcom))

\* The response leaves; the slot is free again.
Deliver(s) ==
    /\ pc[s] = "responded"
    /\ pc' = [pc EXCEPT ![s] = "idle"]
    /\ request' = [request EXCEPT ![s] = None]
    /\ response' = [response EXCEPT ![s] = None]
    /\ invocations' = [invocations EXCEPT ![s] = 0]
    /\ calls' = [calls EXCEPT ![s] = <<>>]
    /\ raised' = [raised EXCEPT ![s] = "none"]
    /\ returned' = [returned EXCEPT ![s] = None]
    /\ seen' = [seen EXCEPT ![s] = None]
    /\ UNCHANGED stores

\* The scheduler creates the instance of a step of an existing run.
ScheduleTaskInstance ==
    \E run \in dag_runs :
        \E t \in dagbag_dags[run.dag_id] :
            LET ti == [dag_id |-> run.dag_id, task_id |-> t,
                       execution_date |-> run.execution_date]
            IN  /\ ti \notin task_instances
                /\ task_instances' = task_instances \cup {ti}
                /\ UNCHANGED <<dag_runs, xcom, pc, request, response, audit>>

\* One request at a time, over every route.
Next ==
    \/ \E r \in Requests : Receive(1, r)
    \/ Authenticate(1)
    \/ trigger_dag(1)
    \/ dag_info(1)
    \/ dag_run_info(1)
    \/ test(1)
    \/ task_info(1)
    \/ latest_dag_runs(1)
    \/ task_instance_info(1)
    \/ write_xcom(1)
    \/ Deliver(1)
    \/ ScheduleTaskInstance

Spec == Init /\ [][Next]_vars

ReceiveTrigger(s) == \E r \in TriggerRequests : Receive(s, r)

\* Trigger requests served concurrently.
NextConcurrent ==
    \E s \in Slots :
        \/ ReceiveTrigger(s)
        \/ Authenticate(s)
        \/ trigger_dag(s)
        \/ Deliver(s)

SpecConcurrent == Init /\ [][NextConcurrent]_vars

(***************************************************************************)
(* Properties                                                              *)
(***************************************************************************)
\* The credential is one the backend verification accepts.
CredentialAccepted(h) ==
    /\ h # None
    /\ "username" \in DOMAIN h
    /\ [username |-> h.username, password |-> h.password] = good_credential

\* The step in which the view function of slot s runs.
Serving(s) == pc[s] = "authenticated" /\ pc'[s] = "responded"

\* The step in which decorated() of slot s checks the credential.
Gating(s) == pc[s] = "received" /\ pc'[s] # "received"

Forbidden403 ==
    [status |-> 403, mimetype |-> "text/html", body |-> [text |-> "Forbidden"]]

IsError(resp, code) == resp.status = code /\ DOMAIN resp.body = {"error"}

\* C1: a request with no Authorization credential, or one whose
\* verification raises, is answered with exactly 403 "Forbidden" in the one
\* step of the decorator: the view function is not invoked, no collaborator
\* is called, and the run registry and the XCom table stay as they were.
C1_FailClosed ==
    [][\A s \in Slots :
          Gating(s) /\ ~CredentialAccepted(request[s].header) =>
              /\ pc'[s] = "responded"
              /\ response'[s] = Forbidden403
              /\ invocations'[s] = 0
              /\ calls'[s] = <<>>
              /\ dag_runs' = dag_runs
              /\ xcom' = xcom]_vars

\* An XCom write that would have changed the table was turned away
\* because the verification of its credential raised.
C1_Witness ==
    /\ pc[1] = "responded"
    /\ request[1].endpoint = "write_xcom"
    /\ request[1].header = bad_credential
    /\ request[1].dag_id = dag_etl
    /\ strptime(request[1].execution_date).ok
    /\ response[1] = Forbidden403
    /\ xcom = {}

\* C2: a request whose credential is accepted reaches the view function,
\* which is invoked exactly once, and the caller gets what the view
\* function returned, never the 403 "Forbidden" response.
C2_AcceptedGetsHandlerResponse ==
    \A s \in Slots :
        pc[s] = "responded" /\ CredentialAccepted(request[s].header) =>
            /\ invocations[s] = 1
            /\ returned[s] # None
            /\ response[s] = returned[s]
            /\ response[s] # Forbidden403

\* C3 as stated: GET /test answers {status: "OK"} to a request with no
\* credential, and every other endpoint answers such a request with 403.
C3_TestIsOpen ==
    \A s \in Slots :
        pc[s] = "responded" /\ request[s].header = None =>
            IF request[s].endpoint = "test"
            THEN response[s].status = 200
                 /\ response[s].body = [status |-> "OK"]
            ELSE response[s].status = 403

\* C3 amended: every endpoint, GET /test included, answers a request with
\* no credential with 403 "Forbidden"; /test answers {status: "OK"} once the
\* credential is accepted.
C3_EveryRouteGated ==
    \A s \in Slots :
        pc[s] = "responded" =>
            /\ request[s].header = None => response[s] = Forbidden403
            /\ request[s].endpoint = "test"
               /\ CredentialAccepted(request[s].header) =>
                   /\ response[s].status = 200
                   /\ response[s].body = [status |-> "OK"]

C3_Witness ==
    /\ pc[1] = "responded"
    /\ request[1].endpoint = "test"
    /\ request[1].header = None
    /\ response[1] = Forbidden403

\* C8: when the view function of an authenticated request fails with
\* something that is neither a validation error nor an AirflowException,
\* the response is a generic server error (500) and not the
\* authentication-failure response.
C8_UnexpectedFailureIs500 ==
    \A s \in Slots :
        /\ pc[s] = "responded"
        /\ CredentialAccepted(request[s].header)
        /\ raised[s] # "none"
        => response[s].status = 500 /\ response[s] # Forbidden403

(***************************************************************************)
(* Execution dates                                                         *)
(***************************************************************************)
DateEndpoints == {"dag_run_info", "task_instance_info", "write_xcom"}

\* The request carries an execution date as text.
HasDateText(r) ==
    \/ r.endpoint \in DateEndpoints
    \/ /\ r.endpoint = "trigger_dag"
       /\ r.body.valid
       /\ "execution_date" \in DOMAIN r.body.data
       /\ r.body.data.execution_date.t = "str"

DateTextOf(r) ==
    IF r.endpoint = "trigger_dag" THEN r.body.data.execution_date.v
    ELSE r.execution_date

\* The text is YYYY-MM-DDTHH:MM:SS to the letter, and names a real instant.
MatchesPattern(text) ==
    /\ Len(text) = 19
    /\ \A i \in 1 .. 19 :
           IF i \in {5, 8} THEN text[i] = "-"
           ELSE IF i = 11 THEN text[i] = "T"
           ELSE IF i \in {14, 17} THEN text[i] = ":"
           ELSE IsDigit(text[i])
    /\ LET y == NumVal(SubSeq(text, 1, 4))
           m == NumVal(SubSeq(text, 6, 7))
           d == NumVal(SubSeq(text, 9, 10))
       IN  /\ y >= 1 /\ m \in 1 .. 12
           /\ d >= 1 /\ d <= days_in_month(y, m)
           /\ NumVal(SubSeq(text, 12, 13)) \in 0 .. 23
           /\ NumVal(SubSeq(text, 15, 16)) \in 0 .. 59
           /\ NumVal(SubSeq(text, 18, 19)) \in 0 .. 59

\* The step of slot s ends in the 400 response that echoes the text, with
\* no collaborator called and the stores as they were.
RejectedAsBadDate(s, text) ==
    /\ IsError(response'[s], 400)
    /\ response'[s].body.error.fmt =
           "Given execution date, {}, could not be identified as a date. Example date format: 2015-11-16T14:34:15"
    /\ response'[s].body.error.args = <<text>>
    /\ calls'[s] = <<>>
    /\ dag_runs' = dag_runs
    /\ xcom' = xcom

\* C4 as stated: an authenticated request whose date text does not match
\* YYYY-MM-DDTHH:MM:SS gets 400 with the text echoed, and nothing downstream
\* is called or changed.
C4_PatternMismatchRejected ==
    [][\A s \in Slots :
          /\ Serving(s)
          /\ HasDateText(request[s])
          /\ ~MatchesPattern(DateTextOf(request[s]))
          => RejectedAsBadDate(s, DateTextOf(request[s]))]_vars

\* C4 amended: an authenticated request whose date text strptime rejects
\* gets 400 with the text echoed, and nothing downstream is called or
\* changed; a text that strptime accepts although its fields are not
\* zero-padded is not among them.
C4_UnparsableDateRejected ==
    [][\A s \in Slots :
          /\ Serving(s)
          /\ HasDateText(request[s])
          /\ ~strptime(DateTextOf(request[s])).ok
          => RejectedAsBadDate(s, DateTextOf(request[s]))]_vars

\* A date that names no real day was refused with 400 while a run and an
\* XCom entry existed.
C4_Witness ==
    /\ pc[1] = "responded"
    /\ request[1].endpoint \in DateEndpoints \cup {"trigger_dag"}
    /\ HasDateText(request[1])
    /\ DateTextOf(request[1]) = date_no_such_day
    /\ response[1].status = 400
    /\ dag_runs # {}
    /\ xcom # {}

(***************************************************************************)
(* Lookups                                                                 *)
(***************************************************************************)
LookupEndpoints ==
    {"dag_info", "dag_run_info", "task_info", "task_instance_info"}

\* The message was formatted with the id among its arguments.
Mentions(message, id) == \E i \in DOMAIN message.args : message.args[i] = id

UnknownDagLookup(s) ==
    /\ pc[s] = "responded"
    /\ CredentialAccepted(request[s].header)
    /\ request[s].endpoint \in LookupEndpoints
    /\ request[s].dag_id \notin DOMAIN dagbag_dags

\* C5 as stated: for a dagId that is not in the registry, every lookup
\* endpoint answers 404 with a message containing the dagId, whatever the
\* execution-date text and the task id.
C5_UnknownDagIs404 ==
    \A s \in Slots :
        UnknownDagLookup(s) =>
            /\ IsError(response[s], 404)
            /\ Mentions(response[s].body.error, request[s].dag_id)

\* C5 amended: for a dagId that is not in the registry, dag_info and
\* task_info answer 404 with a message containing the dagId for every task
\* id; dag_run_info and task_instance_info do so for every execution-date
\* text that strptime accepts, and answer 400 for a text it rejects.
C5_UnknownDagIs404AfterDateCheck ==
    \A s \in Slots :
        UnknownDagLookup(s) =>
            IF request[s].endpoint \in DateEndpoints
               /\ ~strptime(request[s].execution_date).ok
            THEN IsError(response[s], 400)
            ELSE /\ IsError(response[s], 404)
                 /\ Mentions(response[s].body.error, request[s].dag_id)

C5_Witness ==
    /\ pc[1] = "responded"
    /\ request[1].endpoint = "task_instance_info"
    /\ request[1].dag_id = dag_unknown
    /\ request[1].execution_date = date_unpadded
    /\ response[1].status = 404

(***************************************************************************)
(* XCom                                                                    *)
(***************************************************************************)
WrittenEntry(r) ==
    [dag_id |-> r.dag_id, task_id |-> r.task_id,
     execution_date |-> strptime(r.execution_date).value, key |-> r.key,
     value |-> r.value]

\* C10: an authenticated write_xcom with a date that parses writes the entry
\* and answers 200 with a message whenever the dagId is in the registry,
\* whether or not the task, the run or the step instance exists; for a
\* dagId that is not in the registry it answers 404 with an error body,
\* XCom.set is not called and the table is unchanged.
C10_WriteChecksOnlyTheDag ==
    [][\A s \in Slots :
          /\ Serving(s)
          /\ request[s].endpoint = "write_xcom"
          /\ strptime(request[s].execution_date).ok
          => IF request[s].dag_id \in DOMAIN dagbag_dags
             THEN /\ response'[s].status = 200
                  /\ DOMAIN response'[s].body = {"message"}
                  /\ calls'[s] = <<"XCom.set">>
                  /\ WrittenEntry(request[s]) \in xcom'
             ELSE /\ IsError(response'[s], 404)
                  /\ calls'[s] = <<>>
                  /\ xcom' = xcom]_vars

\* An entry was written for a task the dag does not have, on a date for
\* which no run and no step instance exists.
C10_Witness ==
    /\ pc[1] = "responded"
    /\ request[1].endpoint = "write_xcom"
    /\ request[1].task_id = task_unknown
    /\ request[1].task_id \notin dagbag_dags[dag_etl]
    /\ dag_runs = {}
    /\ task_instances = {}
    /\ response[1].status = 200
    /\ WrittenEntry(request[1]) \in xcom

SameCoordinates(a, b) ==
    /\ a.dag_id = b.dag_id /\ a.task_id = b.task_id
    /\ a.execution_date = b.execution_date /\ a.key = b.key

XComUnique(table) ==
    \A a, b \in table : SameCoordinates(a, b) => a = b

\* What reading the coordinates of w back from the table gives.
ReadBack(table, w) == {e.value : e \in {x \in table : SameCoordinates(x, w)}}

SuccessfulWrite(s) ==
    /\ Serving(s)
    /\ request[s].endpoint = "write_xcom"
    /\ response'[s].status = 200

\* C7: the XCom table holds at most one entry per (dagId, taskId,
\* executionDate, key); after a successful write_xcom, reading its key back
\* gives the value written, the entries with other coordinates are as they
\* were, and nothing but a successful write changes the table.
C7_XComUpsert ==
    [][/\ XComUnique(xcom')
       /\ \A s \in Slots :
              SuccessfulWrite(s) =>
                  LET w == WrittenEntry(request[s])
                  IN  /\ ReadBack(xcom', w) = {w.value}
                      /\ {e \in xcom' : ~SameCoordinates(e, w)}
                             = {e \in xcom : ~SameCoordinates(e, w)}
       /\ (\A s \in Slots : ~SuccessfulWrite(s)) => xcom' = xcom]_vars

\* A write replaced the value that was stored under its coordinates, next
\* to an entry with other coordinates that it left alone.
C7_Witness ==
    /\ pc[1] = "responded"
    /\ request[1].endpoint = "write_xcom"
    /\ response[1].status = 200
    /\ LET w == WrittenEntry(request[1])
       IN  /\ ReadBack(seen[1].served.xcom, w) # {}
           /\ ReadBack(seen[1].served.xcom, w) # {w.value}
           /\ ReadBack(xcom, w) = {w.value}
           /\ Cardinality(xcom) = 2
           /\ Cardinality(seen[1].served.xcom) = 2

(***************************************************************************)
(* Run serialisation                                                       *)
(***************************************************************************)
PublicNames(attrs) == {k \in DOMAIN attrs : k # <<>> /\ k[1] # "_"}

\* The mapping holds exactly the public attributes, each as its text.
IsPublicView(view, attrs) ==
    /\ DOMAIN view = PublicNames(attrs)
    /\ \A k \in DOMAIN view : view[k] = str(attrs[k])

RunsOf(runs, r) ==
    {q \in runs :
        /\ q.dag_id = r.dag_id
        /\ q.execution_date = strptime(r.execution_date).value}

InstancesOf(run) ==
    {ti \in task_instances :
        ti.dag_id = run.dag_id /\ ti.execution_date = run.execution_date}

\* C9: for an existing run with N step instances, dag_run_info returns a
\* mapping whose task_instances entry is a sequence of exactly N mappings,
\* one per instance of the run; the mapping holds exactly the run's
\* attributes whose names do not begin with '_', plus task_instances, and
\* each nested mapping exactly those of its instance, every value as text.
C9_RunSerialization ==
    [][\A s \in Slots :
          /\ Serving(s)
          /\ request[s].endpoint = "dag_run_info"
          /\ strptime(request[s].execution_date).ok
          /\ RunsOf(dag_runs, request[s]) # {}
          => LET run == CHOOSE q \in RunsOf(dag_runs, request[s]) : TRUE
                 body == response'[s].body
                 listed == body[key_task_instances]
                 top == [k \in DOMAIN body \ {key_task_instances} |-> body[k]]
             IN  /\ response'[s].status = 200
                 /\ key_task_instances \in DOMAIN body
                 /\ IsPublicView(top, vars_dag_run(run))
                 /\ DOMAIN listed = 1 .. Cardinality(InstancesOf(run))
                 /\ \A ti \in InstancesOf(run) :
                        \E i \in DOMAIN listed :
                            IsPublicView(listed[i], vars_task_instance(ti))
                 /\ \A i \in DOMAIN listed :
                        \A k \in DOMAIN listed[i] : k[1] # "_"]_vars

\* A run with two step instances was serialised.
C9_Witness ==
    /\ pc[1] = "responded"
    /\ request[1].endpoint = "dag_run_info"
    /\ response[1].status = 200
    /\ Len(response[1].body[key_task_instances]) = 2
    /\ Cardinality(task_instances) >= 2

(***************************************************************************)
(* Triggers                                                                *)
(***************************************************************************)
RunsUnique(runs) ==
    \A a, b \in runs :
        a.dag_id = b.dag_id /\ a.execution_date = b.execution_date => a = b

\* The run has the key the request asks for: its dag and, when the request
\* names a date, that date.
HasRequestedKey(run, r) ==
    /\ run.dag_id = r.dag_id
    /\ HasDateText(r) => run.execution_date = strptime(DateTextOf(r)).value

\* A trigger for a dag of the registry, with no date or one that parses.
WellFormedTrigger(r) ==
    /\ r.endpoint = "trigger_dag"
    /\ r.body.valid
    /\ r.dag_id \in DOMAIN dagbag_dags
    /\ "execution_date" \in DOMAIN r.body.data =>
           \/ r.body.data.execution_date.t = "null"
           \/ /\ r.body.data.execution_date.t = "str"
              /\ strptime(r.body.data.execution_date.v).ok

\* C6: whatever the interleaving of trigger requests, there is at most one
\* run per (dagId, executionDate); a trigger for a key that has no run
\* creates it and answers 200 "Created ..."; a trigger for a key that has a
\* run, also one created by a request served meanwhile, answers 404 with
\* body {"error": message}, leaves the registry as it was and raises
\* nothing.
C6_RunUniqueness ==
    [][/\ RunsUnique(dag_runs')
       /\ \A s \in Slots :
              Serving(s) /\ WellFormedTrigger(request[s]) =>
                  /\ raised'[s] = "none"
                  /\ \/ /\ response'[s].status = 200
                        /\ DOMAIN response'[s].body = {"message"}
                        /\ response'[s].body.message.fmt = "Created {}"
                        /\ \E run \in dag_runs' \ dag_runs :
                               /\ HasRequestedKey(run, request[s])
                               /\ find_run(dag_runs, run.dag_id,
                                           run.execution_date) = {}
                               /\ dag_runs' = dag_runs \cup {run}
                     \/ /\ IsError(response'[s], 404)
                        /\ dag_runs' = dag_runs
                        /\ \E run \in dag_runs :
                               HasRequestedKey(run, request[s])]_vars

\* Two triggers for the same key were in flight together, received while
\* the key had no run: one created the run, the other got the conflict as
\* 404.
C6_Witness ==
    /\ pc[1] = "responded" /\ pc[2] = "responded"
    /\ invocations[1] = 1 /\ invocations[2] = 1
    /\ request[1].dag_id = dag_etl /\ request[2].dag_id = dag_etl
    /\ HasDateText(request[1]) /\ HasDateText(request[2])
    /\ DateTextOf(request[1]) = date_padded
    /\ DateTextOf(request[2]) = date_unpadded
    /\ seen[1].received.dag_runs = {} /\ seen[2].received.dag_runs = {}
    /\ seen[1].served.dag_runs = {} /\ seen[2].served.dag_runs # {}
    /\ response[1].status = 200
    /\ IsError(response[2], 404)
    /\ Cardinality(dag_runs) = 1
====
